---------------------------- MODULE Spec2Model ----------------------------
(***************************************************************************)
(* A model of the SRS SIM900 mainframe link (SIM900_api.py) and of the     *)
(* acquisition front end built on it (SIM900.py).                          *)
(*                                                                         *)
(* The link talks to the mainframe through one VISA session.  The model    *)
(* keeps the link object's fields, the state of the mainframe on the far   *)
(* side of the session (the input buffer of every port and the host output *)
(* queue the session reads from), and a record of what the last call did:  *)
(* the commands it transmitted, the settle delays it slept, the transport  *)
(* reads it made, the value it returned and the exception it raised.       *)
(*                                                                         *)
(* Text is a sequence of one-character strings, so that strip(), int() and *)
(* the "%d" formatting of the source are computed, not assumed.            *)
(***************************************************************************)
EXTENDS Integers, Sequences, FiniteSets, TLC

(***************************************************************************)
(* Bounds of the model.                                                    *)
(***************************************************************************)
MaxBuf == 41      \* bytes a port input buffer may hold
MaxOutq == 0      \* responses a caller may leave unread in the host output queue
MaxHandles == 1   \* Module Handles bound at the same time
MaxFaultAt == 2   \* a transport fault hits the 1st .. MaxFaultAt-th read of a call

(***************************************************************************)
(* Program constants.                                                      *)
(***************************************************************************)
WRITE_DELAY == 3       \* settle delay, in tenths of a second
SCAN_DELAY == 1        \* the shorter delay scanPorts sleeps after its probe
FirstPort == 1
LastPort == 8
AUTO_FLUSH == TRUE

Ports == FirstPort..LastPort
NoPort == -1           \* port = None
NoBytes == -1          \* nbytes = None

\* F of the value w, which is worked out once however often F uses it
Then(w, F(_)) == CHOOSE r \in {F(v) : v \in {w}} : TRUE

(***************************************************************************)
(* Text.                                                                   *)
(***************************************************************************)
Digits == <<"0", "1", "2", "3", "4", "5", "6", "7", "8", "9">>
Whitespace == {" ", "\n", "\r", "\t"}

RECURSIVE LStrip(_)
LStrip(s) ==
  Then(s, LAMBDA v :
    IF v # <<>> /\ Head(v) \in Whitespace THEN LStrip(Tail(v)) ELSE v)

RECURSIVE RStrip(_)
RStrip(s) ==
  Then(s, LAMBDA v :
    IF v # <<>> /\ v[Len(v)] \in Whitespace
      THEN RStrip(SubSeq(v, 1, Len(v) - 1))
      ELSE v)

\* str.strip()
Strip(s) == RStrip(LStrip(s))

\* "%d" % n for n >= 0
RECURSIVE FormatInt(_)
FormatInt(n) ==
  IF n < 10 THEN <<Digits[n + 1]>>
            ELSE Append(FormatInt(n \div 10), Digits[(n % 10) + 1])

DigitValue(c) == CHOOSE d \in 0..9 : Digits[d + 1] = c
IsDigit(c) == \E d \in 0..9 : Digits[d + 1] = c

RECURSIVE DigitsValue(_)
DigitsValue(s) ==
  Then(s, LAMBDA v :
    IF v = <<>> THEN 0
    ELSE 10 * DigitsValue(SubSeq(v, 1, Len(v) - 1)) + DigitValue(v[Len(v)]))

\* int(s) succeeds on optional surrounding whitespace around decimal digits
IntParses(s) ==
  Then(Strip(s), LAMBDA v : v # <<>> /\ \A i \in 1..Len(v) : IsDigit(v[i]))

IntValue(s) == DigitsValue(Strip(s))


\* str.replace(a, b) for one-character a and b
Replace(s, a, b) ==
  Then(s, LAMBDA v :
    [i \in 1..Len(v) |-> IF v[i] = a THEN b ELSE v[i]])

\* the position of the first a in s, or 0
FirstIndex(s, a) ==
  Then(s, LAMBDA v :
    IF \E i \in 1..Len(v) : v[i] = a
      THEN CHOOSE i \in 1..Len(v) : v[i] = a /\ \A j \in 1..(i - 1) : v[j] # a
      ELSE 0)

\* s.split(',') has an element [1] exactly when s holds a comma
HasField1(s) == FirstIndex(s, ",") # 0

\* the text of s up to its first comma, or all of it
UpToComma(s) ==
  Then(s, LAMBDA v :
    IF FirstIndex(v, ",") = 0 THEN v ELSE SubSeq(v, 1, FirstIndex(v, ",") - 1))

\* s.split(',')[1]
Field1(s) ==
  Then(s, LAMBDA v : UpToComma(SubSeq(v, FirstIndex(v, ",") + 1, Len(v))))

(***************************************************************************)
(* State.                                                                  *)
(***************************************************************************)
VARIABLES
  built,       \* a SIM900_api object has been constructed
  instrument,  \* self.instrument: "None" or "resource"
  session,     \* the VISA session behind self.instrument is open
  id,          \* self.id: <<"None">> or the identity text
  modules,     \* the ports of the mainframe that hold a module
  buf,         \* mainframe: the input buffer of every port
  outq,        \* mainframe: the host output queue (responses not yet read)
  handles,     \* the SIM_Module objects bound so far: [port, id]
  op,          \* the last call: its name and arguments
  flushed,     \* the port the call before it flushed, if it was a flush
  closed,      \* close() was called on a connected link
  trace,       \* the transport events of the last call, in order
  ret,         \* the value the last call returned
  exc,         \* the exception the last call raised, or "none"
  api,             \* SIM900.api: "None" or "link"
  SIM922,          \* SIM900.SIM922: the handle of the SIM922, [port, id, live]
  SIM970,          \* SIM900.SIM970: the handle of the SIM970
  button_connect,  \* [checked, enabled]
  button_acquire,  \* [checked, enabled]
  settings,        \* [enabled, channels]: the SIM922 channels ticked
  window,          \* "open" or "closed"
  running,         \* the handlers that have not returned, the innermost last
  inFlight,        \* the ports sent a message whose reply was not read yet
  overlap          \* the last step sent a command into an exchange in flight

guiVars == <<api, SIM922, SIM970, button_connect, button_acquire, settings,
             window, running, inFlight, overlap>>

apiVars == <<built, instrument, session, id, modules, buf, outq, handles,
             op, flushed, closed, trace, ret, exc>>

None == <<"None">>

(***************************************************************************)
(* Transport events.                                                       *)
(***************************************************************************)
\* a command written, a delay slept, a read and the response r it got
Cmd(c, p, m, n) == [e |-> "write", c |-> c, p |-> p, m |-> m, n |-> n, r |-> <<>>]
Slept(d) == [e |-> "sleep", c |-> "", p |-> NoPort, m |-> "", n |-> d, r |-> <<>>]
ReadEv(r) == [e |-> "read", c |-> "", p |-> NoPort, m |-> "", n |-> -1, r |-> r]

IDN == Cmd("*IDN?", NoPort, "", -1)
FLSH == Cmd("FLSH", NoPort, "", -1)
FLSI(p) == Cmd("FLSI", p, "", -1)
SNDT(p, m) == Cmd("SNDT", p, m, -1)
NINP(p) == Cmd("NINP?", p, "", -1)
RAWN(p, n) == Cmd("RAWN?", p, "", n)

(***************************************************************************)
(* Values a call returns.                                                  *)
(***************************************************************************)
RetNone == [t |-> "None", s |-> <<>>, n |-> 0, l |-> <<>>]
RetStr(s) == [t |-> "str", s |-> s, n |-> 0, l |-> <<>>]
RetInt(n) == [t |-> "int", s |-> <<>>, n |-> n, l |-> <<>>]
RetList(l) == [t |-> "list", s |-> <<>>, n |-> 0, l |-> l]

(***************************************************************************)
(* The mainframe and its modules, as the link sees them.                   *)
(***************************************************************************)
\* "<maker>,<model>,<serial>,<version>": the maker's name is 25 characters
\* long and the model's 6, so that the serial starts at offset 33
Maker == [i \in 1..25 |-> "x"]
SerialAndVersion == <<"s", "n", ",", "v", "1", "0">>
MainframeIdn ==
  Maker \o <<",", "S", "I", "M", "9", "0", "0", ",">> \o SerialAndVersion \o <<"\n">>
ModuleIdn(p) ==
  Maker \o <<",", "S", "I", "M", "9">>
        \o (IF p = 1 THEN <<"2", "2">> ELSE <<"7", "0">>)
        \o <<",">> \o SerialAndVersion \o <<"\r", "\n">>
\* four readings, "+d.dddddd" each: a reply as long as an identification
Reading(d) == <<"+", d, ".", "5", "0", "0", "0", "0", "0">>
VoltReply ==
  Reading("1") \o <<",">> \o Reading("2") \o <<",">> \o Reading("3") \o <<",">>
               \o Reading("4") \o <<"\r", "\n">>

\* the four excitation states, all off
ExcitationReply == <<"0", ",", " ", "0", ",", " ", "0", ",", " ", "0", "\r", "\n">>

\* what the module at port p sends back for message m
Reply(p, m) ==
  CASE m = "*IDN?" -> ModuleIdn(p)
    [] m = "VOLT? 0" -> VoltReply
    [] m = "EXON? 0" -> ExcitationReply
    [] OTHER -> <<>>

Min(a, b) == IF a < b THEN a ELSE b

\* the mainframe executes one command
Device(w, c) ==
  Then(w, LAMBDA v :
    CASE c.c = "*IDN?" -> [v EXCEPT !.outq = Append(@, MainframeIdn)]
      [] c.c = "FLSH" -> [v EXCEPT !.buf = [q \in Ports |-> <<>>]]
      [] c.c = "FLSI" ->
           IF c.p = NoPort THEN [v EXCEPT !.buf = [q \in Ports |-> <<>>]]
           ELSE IF c.p \in Ports THEN [v EXCEPT !.buf[c.p] = <<>>]
           ELSE v
      [] c.c = "SNDT" ->
           IF c.p \in modules THEN [v EXCEPT !.buf[c.p] = @ \o Reply(c.p, c.m)]
           ELSE v
      [] c.c = "NINP?" ->
           IF c.p \in Ports
             THEN [v EXCEPT !.outq = Append(@, Append(FormatInt(Len(v.buf[c.p])), "\n"))]
             ELSE v
      [] c.c = "RAWN?" ->
           IF c.p \in Ports /\ c.n >= 0
             THEN LET k == Min(c.n, Len(v.buf[c.p])) IN
                  [v EXCEPT !.outq = Append(@, SubSeq(v.buf[c.p], 1, k)),
                            !.buf[c.p] = SubSeq(@, k + 1, Len(@))]
             ELSE v
      [] OTHER -> v)

(***************************************************************************)
(* The VISA resource (pyvisa), as the link uses it.  A call works on a     *)
(* record w of the state it runs in; an exception ends the call, so every  *)
(* later step passes a raised w on unchanged.                              *)
(***************************************************************************)
Ok(w) == w.exc = "none"
Raise(w, e) == [w EXCEPT !.exc = e, !.ret = RetNone]
Return(w, r) == [w EXCEPT !.ret = r]
ReturnNone(w) ==
  Then(w, LAMBDA v :
    IF Ok(v) THEN Return(v, RetNone) ELSE v)

\* self.instrument.write(c); w.fault counts down to the write or read that
\* the transport fault of this call hits
instrument_write(w, c) ==
  Then(w, LAMBDA v :
    IF ~Ok(v) THEN v
    ELSE IF v.inst = "None" THEN Raise(v, "AttributeError")
    ELSE IF ~v.session THEN Raise(v, "InvalidSession")
    ELSE IF v.fkind = "write" /\ v.fault = 1 THEN Raise([v EXCEPT !.fault = 0], "VisaIOError")
    ELSE Device([v EXCEPT !.trace = Append(@, c),
                          !.fault = IF v.fkind = "write" /\ @ > 0 THEN @ - 1 ELSE @], c))

ReadFaultHits(w, k) ==
  Then(w, LAMBDA v :
    v.fkind = k /\ v.fault = 1)

\* a read was attempted, and got r
Attempted(w, r) ==
  Then(w, LAMBDA v :
    [v EXCEPT !.trace = Append(@, ReadEv(r)),
              !.fault = IF v.fkind # "write" /\ @ > 0 THEN @ - 1 ELSE @])

\* a read took the next response off the host output queue, and got r
Taken(w, r) == Return([Attempted(w, r) EXCEPT !.outq = Tail(@)], RetStr(r))

Garbage == <<"?">>

\* the read just attempted found no response within the timeout and raises;
\* w.expired keeps its place in the trace
TimedOut(w) ==
  Then(w, LAMBDA v :
    Raise([v EXCEPT !.expired = Len(v.trace)], "Timeout"))

\* self.instrument.read(): the next response of the host output queue; a
\* read that finds none within the timeout raises
instrument_read(w) ==
  Then(w, LAMBDA v :
    IF ~Ok(v) THEN v
    ELSE IF v.inst = "None" THEN Raise(v, "AttributeError")
    ELSE IF ~v.session THEN Raise(v, "InvalidSession")
    ELSE IF v.outq = <<>> THEN TimedOut(Attempted(v, <<>>))
    ELSE IF ReadFaultHits(v, "timeout") THEN TimedOut(Taken(v, <<>>))
    ELSE IF ReadFaultHits(v, "garbage") THEN Taken(v, Garbage)
    ELSE Taken(v, Head(v.outq)))

\* self.instrument.close()
instrument_close(w) ==
  Then(w, LAMBDA v :
    IF ~Ok(v) THEN v ELSE [v EXCEPT !.session = FALSE])

\* _time.sleep(d)
sleep(w, d) ==
  Then(w, LAMBDA v :
    IF ~Ok(v) THEN v ELSE [v EXCEPT !.trace = Append(@, Slept(d))])

(***************************************************************************)
(* SIM900_api: the methods.                                                *)
(***************************************************************************)
RetSent == [t |-> "sent", s |-> <<>>, n |-> 0, l |-> <<>>]

ReturnSent(w) ==
  Then(w, LAMBDA v :
    IF Ok(v) THEN Return(v, RetSent) ELSE v)

\* a variant of write() that opens the resource again when there is none
write_reopens(w, message) ==
  Then(w, LAMBDA v :
    IF ~Ok(v) THEN v
    ELSE ReturnSent(instrument_write([v EXCEPT !.inst = "resource", !.session = TRUE], message)))

write(w, message) ==
  Then(w, LAMBDA v :
    IF ~Ok(v) THEN v
    ELSE IF v.inst = "None" THEN Return(v, RetNone)
    ELSE ReturnSent(instrument_write(v, message)))

\* return response.strip()
stripped(w) ==
  Then(w, LAMBDA v :
    IF Ok(v) THEN Return(v, RetStr(Strip(v.ret.s))) ELSE v)

\* a variant of read() that catches the timeout of the transport and gives
\* the empty string
read_emptyOnTimeout(w) ==
  Then(w, LAMBDA v :
    IF ~Ok(v) THEN v
    ELSE IF v.inst = "None" THEN stripped(Return(v, RetStr(<<>>)))
    ELSE IF instrument_read(v).exc = "Timeout"
      THEN Return([instrument_read(v) EXCEPT !.exc = "none"], RetStr(<<>>))
    ELSE stripped(instrument_read(v)))

read(w) ==
  Then(w, LAMBDA v :
    IF ~Ok(v) THEN v
    ELSE IF v.inst = "None" THEN stripped(Return(v, RetStr(<<>>)))
    ELSE stripped(instrument_read(v)))

query(w, message) == stripped(read(sleep(write(w, message), WRITE_DELAY)))

\* w.sent records the bytes the port held when the message went out
writePort(w, port, message) ==
  Then(w, LAMBDA v :
    ReturnNone(instrument_write(
      [v EXCEPT !.sent = IF Ok(v) /\ port \in Ports THEN Len(v.buf[port]) ELSE @],
      SNDT(port, message))))

\* a variant of the end of inWaiting that returns 0 for a reply that is no
\* integer
parsed_lenient(w) ==
  Then(w, LAMBDA v :
    IF ~Ok(v) THEN v
    ELSE IF IntParses(v.ret.s) THEN Return(v, RetInt(IntValue(v.ret.s)))
    ELSE Return(v, RetInt(0)))

\* return int(n)
parsed(w) ==
  Then(w, LAMBDA v :
    IF ~Ok(v) THEN v
    ELSE IF IntParses(v.ret.s) THEN Return(v, RetInt(IntValue(v.ret.s)))
    ELSE Raise(v, "ValueError"))

inWaiting(w, port) == parsed(query(w, NINP(port)))

\* the request for n bytes of the port, the wait, and the read
request(w, port, n) ==
  read(sleep(instrument_write(w, RAWN(port, n)), WRITE_DELAY))

\* the request for as many bytes as inWaiting has just returned in w
requestWaiting(w, port) ==
  Then(w, LAMBDA v :
    request(v, port, v.ret.n))

\* a variant of readPort that asks the mainframe for the count although the
\* caller supplied one
readPort_alwaysCounts(w, port, nbytes) == requestWaiting(inWaiting(w, port), port)

readPort(w, port, nbytes) ==
  Then(w, LAMBDA v :
    IF nbytes = NoBytes THEN requestWaiting(inWaiting(v, port), port)
                        ELSE request(v, port, nbytes))

\* a variant of flush that names the port after the one it was given
flush_nextPort(w, port) == ReturnNone(instrument_write(w, FLSI(port + 1)))

flush(w, port) == ReturnNone(instrument_write(w, FLSI(port)))

\* a variant of the conditional flush that never flushes
flushIfWaiting_never(w, port) == w

\* if(self.inWaiting(port) != 0): self.flush(port), w being what inWaiting left
flushIfWaiting(w, port) ==
  Then(w, LAMBDA v :
    IF Ok(v) /\ v.ret.n # 0 THEN flush(v, port) ELSE v)

\* the flush before the exchange, with _AUTO_FLUSH set to auto
preflushUnder(auto, w, port) ==
  IF auto THEN flush(w, port) ELSE flushIfWaiting(inWaiting(w, port), port)

preflush(w, port) == preflushUnder(AUTO_FLUSH, w, port)

\* a variant of queryPort that flushes every port before it sends
queryPort_flushAll(w, port, message, nbytes) ==
  readPort(sleep(writePort(flush(w, NoPort), port, message), WRITE_DELAY), port, NoBytes)

\* a variant of queryPort that sends without flushing
queryPort_noFlush(w, port, message, nbytes) ==
  readPort(sleep(writePort(w, port, message), WRITE_DELAY), port, NoBytes)

queryPort(w, port, message, nbytes) ==
  readPort(sleep(writePort(preflush(w, port), port, message), WRITE_DELAY), port, NoBytes)

\* queryPort with _AUTO_FLUSH set to auto
queryPortUnder(auto, w, port, message) ==
  readPort(sleep(writePort(preflushUnder(auto, w, port), port, message), WRITE_DELAY),
           port, NoBytes)

\* scanPorts: the turn of its loop for port i, and the turns after it
RECURSIVE scanFrom(_, _, _)
RECURSIVE scanCounted(_, _, _)
RECURSIVE scanRead(_, _, _)

\* s = self.query("RAWN? ...").split(',')[1]; ports.append(s)
scanRead(w, i, ports) ==
  Then(w, LAMBDA v :
    IF ~Ok(v) THEN v
    ELSE IF ~HasField1(v.ret.s) THEN Raise(v, "IndexError")
    ELSE scanFrom(v, i + 1, Append(ports, Field1(v.ret.s))))

\* j = self.inWaiting(i); if(j != 0): ... else: ports.append(None)
scanCounted(w, i, ports) ==
  Then(w, LAMBDA v :
    IF ~Ok(v) THEN v
    ELSE IF v.ret.n # 0 THEN scanRead(query(v, RAWN(i, v.ret.n)), i, ports)
    ELSE scanFrom(v, i + 1, Append(ports, None)))

scanFrom(w, i, ports) ==
  Then(w, LAMBDA v :
    IF ~Ok(v) THEN v
    ELSE IF i > LastPort THEN Return(v, RetList(ports))
    ELSE scanCounted(
           inWaiting(sleep(instrument_write(v, SNDT(i, "*IDN?")), SCAN_DELAY), i), i, ports))

\* a variant of scanPorts that probes every port but the first
scanPorts_skipFirst(w) == scanFrom(w, FirstPort + 1, <<>>)

scanPorts(w) == scanFrom(w, FirstPort, <<>>)

close(w) ==
  Then(w, LAMBDA v :
    IF v.inst # "None" THEN ReturnNone(instrument_close(v)) ELSE Return(v, RetNone))

\* a variant of the end of __init__ without the except clause of the probe
probed_noExcept(w) ==
  Then(w, LAMBDA v :
    IF Ok(v) THEN Return([v EXCEPT !.id = Replace(v.ret.s, ",", " ")], RetNone) ELSE v)

\* a variant of the end of __init__ whose except clause drops the resource
\* without closing it
probed_noClose(w) ==
  IF Ok(w) THEN Return([w EXCEPT !.id = Replace(w.ret.s, ",", " ")], RetNone)
  ELSE [w EXCEPT !.exc = "none", !.inst = "None"]

\* the end of __init__ after a successful open: the id is kept, or the
\* except clause closes the resource and drops it
probed(w) ==
  Then(w, LAMBDA v :
    IF Ok(v) THEN Return([v EXCEPT !.id = Replace(v.ret.s, ",", " ")], RetNone)
    ELSE [instrument_close([v EXCEPT !.exc = "none"]) EXCEPT !.inst = "None"])

\* SIM900_api.__init__: opened says whether open_resource returns a resource
init(w, opened) ==
  Then(w, LAMBDA v :
    IF ~opened THEN [v EXCEPT !.id = None, !.inst = "None"]
    ELSE probed(query(instrument_write(
           [v EXCEPT !.id = None, !.inst = "resource", !.session = TRUE], FLSH), IDN)))

(***************************************************************************)
(* SIM900_api.SIM_Module: a handle is the pair of its port and its id.     *)
(***************************************************************************)
ID_OFFSET == 33

\* s[k:]
SliceFrom(s, k) ==
  Then(s, LAMBDA v :
    SubSeq(v, k + 1, Len(v)))

\* a variant of SIM_Module.write that always addresses the first port
module_write_firstPort(w, port, msg) == writePort(w, FirstPort, msg)

module_write(w, port, msg) == writePort(w, port, msg)

module_read(w, port, nbytes) == readPort(w, port, nbytes)

module_query(w, port, msg, nbytes) == queryPort(w, port, msg, NoBytes)

\* self.id = <the reply>[33:].replace(",", " ")
identity(w) ==
  Then(w, LAMBDA v :
    IF Ok(v) THEN Return(v, RetStr(Replace(SliceFrom(v.ret.s, ID_OFFSET), ",", " "))) ELSE v)

module_init(w, port) == identity(module_query(w, port, "*IDN?", NoBytes))

\* a variant of getID that asks the module again
getID_asksAgain(w, h) == module_init(w, h.port)

\* return self.id
getID(w, h) ==
  Then(w, LAMBDA v :
    IF Ok(v) THEN Return(v, RetStr(h.id)) ELSE v)

\* s without the character c
Remove(s, c) == SelectSeq(s, LAMBDA x : x # c)

\* s.split(',')
RECURSIVE Fields(_)
Fields(s) ==
  Then(s, LAMBDA v :
    IF FirstIndex(v, ",") = 0 THEN <<v>>
    ELSE <<SubSeq(v, 1, FirstIndex(v, ",") - 1)>>
           \o Fields(SubSeq(v, FirstIndex(v, ",") + 1, Len(v))))

\* [bool(int(e)) for e in ex.replace(' ','').split(',')]
excitations(w) ==
  Then(w, LAMBDA v :
    IF ~Ok(v) THEN v
    ELSE IF \A i \in 1..Len(Fields(Remove(v.ret.s, " "))) :
              IntParses(Fields(Remove(v.ret.s, " "))[i])
      THEN Return(v, RetList([i \in 1..Len(Fields(Remove(v.ret.s, " "))) |->
                                IntValue(Fields(Remove(v.ret.s, " "))[i]) # 0]))
    ELSE Raise(v, "ValueError"))

getExcitation(w, port) == excitations(queryPort(w, port, "EXON? 0", NoBytes))

\* "EXON %d, %d" % (channel, state)
ExonMsg(channel, state) ==
  IF state THEN <<"EXON 1, 1", "EXON 2, 1", "EXON 3, 1", "EXON 4, 1">>[channel]
           ELSE <<"EXON 1, 0", "EXON 2, 0", "EXON 3, 0", "EXON 4, 0">>[channel]

setExcitation(w, port, channel, state) == module_write(w, port, ExonMsg(channel, state))

\* SIM970_api.funMesg: four writes
funMesg(w, port) ==
  module_write(module_write(module_write(module_write(
    w, port, "DISX 3 ,0"), port, "DISX 4 ,0"), port, "MESG 3 ,_CRYO"), port, "MESG 4 ,_STAT")

(***************************************************************************)
(* The calls a program makes, one action each.                             *)
(***************************************************************************)
PortArgs == {1, 7, 9}
Msgs == {"VOLT? 0", "EXON 1, 1"}
NbytesArgs == {NoBytes, 0, Len(VoltReply)}
ChannelArgs == {1, 4}
RawCmds == {IDN, FLSH, NINP(1)}
ModuleSets == {{1, 7}, {1}}

NoFault == [k |-> "none", a |-> 0]
ReadFaults == {NoFault} \cup [k : {"timeout", "garbage"}, a : 1..MaxFaultAt]
ProbeFaults == ReadFaults \cup [k : {"write"}, a : 1..2]

\* the state a call starts in, with the transport fault it will meet
Start(f) ==
  [inst |-> instrument, session |-> session, id |-> id, buf |-> buf, outq |-> outq,
   trace |-> <<>>, ret |-> RetNone, exc |-> "none", sent |-> -1,
   fkind |-> f.k, fault |-> f.a, expired |-> 0]

Call(name, port, msg, nb, via) ==
  [name |-> name, port |-> port, msg |-> msg, nb |-> nb, via |-> via]

\* the state a call ends in; o names the call
Finish(w, f, o) ==
  /\ op.name = ""
  /\ \A q \in Ports : Len(w.buf[q]) <= MaxBuf
  /\ Len(w.outq) <= MaxOutq
  /\ instrument' = w.inst
  /\ session' = w.session
  /\ id' = w.id
  /\ buf' = w.buf
  /\ outq' = w.outq
  /\ trace' = w.trace
  /\ ret' = w.ret
  /\ exc' = w.exc
  /\ op' = [name |-> o.name, port |-> o.port, msg |-> o.msg, nb |-> o.nb, via |-> o.via,
            sync |-> (outq = <<>>), sent |-> w.sent,
            held |-> IF o.port \in Ports THEN Len(buf[o.port]) ELSE 0,
            fault |-> IF f.a > 0 /\ w.fault = 0 THEN f.k ELSE "none",
            clean |-> (\A q \in Ports : buf[q] = <<>>), expired |-> w.expired]
  /\ closed' = (closed \/ (o.name = "close" /\ instrument = "resource" /\ session))
  /\ UNCHANGED flushed
  /\ UNCHANGED guiVars

NoCall ==
  [name |-> "", port |-> NoPort, msg |-> "", nb |-> NoBytes, via |-> NoPort,
   sync |-> TRUE, sent |-> -1, held |-> 0, fault |-> "none", clean |-> TRUE,
   expired |-> 0]

NotFlushed == [port |-> -2, held |-> 0]

\* no handle bound yet
Absent == [port |-> NoPort, id |-> None, live |-> FALSE]

\* SIM900.__init__: no link, the acquire button disabled, nothing ticked
GuiInit ==
  /\ api = "None"
  /\ SIM922 = Absent
  /\ SIM970 = Absent
  /\ button_connect = [checked |-> FALSE, enabled |-> TRUE]
  /\ button_acquire = [checked |-> FALSE, enabled |-> FALSE]
  /\ settings = [enabled |-> TRUE, channels |-> {}]
  /\ window = "open"
  /\ running = <<>>
  /\ inFlight = {}
  /\ overlap = FALSE

Init ==
  /\ GuiInit
  /\ built = FALSE
  /\ instrument = "None"
  /\ session = FALSE
  /\ id = None
  /\ modules \in ModuleSets
  /\ \E stale \in SUBSET modules :
       buf = [q \in Ports |-> IF q \in stale THEN VoltReply ELSE <<>>]
  /\ outq = <<>>
  /\ handles = {}
  /\ op = NoCall
  /\ flushed = NotFlushed
  /\ trace = <<>>
  /\ ret = RetNone
  /\ exc = "none"
  /\ closed = FALSE

Construct ==
  /\ ~built
  /\ \E opened \in BOOLEAN, f \in ProbeFaults :
       Finish(init(Start(f), opened), f,
              Call("__init__", NoPort, IF opened THEN "opened" ELSE "open raises",
                   NoBytes, NoPort))
  /\ built' = TRUE
  /\ UNCHANGED <<modules, handles>>

CallWrite ==
  /\ built
  /\ \E c \in RawCmds :
       Finish(write(Start(NoFault), c), NoFault, Call("write", c.p, c.c, NoBytes, NoPort))
  /\ UNCHANGED <<built, modules, handles>>

CallRead ==
  /\ built
  /\ \E f \in ReadFaults :
       Finish(read(Start(f)), f, Call("read", NoPort, "", NoBytes, NoPort))
  /\ UNCHANGED <<built, modules, handles>>

CallQuery ==
  /\ built
  /\ \E c \in RawCmds, f \in ReadFaults :
       Finish(query(Start(f), c), f, Call("query", c.p, c.c, NoBytes, NoPort))
  /\ UNCHANGED <<built, modules, handles>>

CallWritePort ==
  /\ built
  /\ \E p \in PortArgs, m \in Msgs :
       Finish(writePort(Start(NoFault), p, m), NoFault, Call("writePort", p, m, NoBytes, NoPort))
  /\ UNCHANGED <<built, modules, handles>>

CallReadPort ==
  /\ built
  /\ \E p \in PortArgs, nb \in NbytesArgs, f \in ReadFaults :
       Finish(readPort(Start(f), p, nb), f, Call("readPort", p, "", nb, NoPort))
  /\ UNCHANGED <<built, modules, handles>>

CallQueryPort ==
  /\ built
  /\ \E p \in PortArgs, m \in Msgs, nb \in NbytesArgs, f \in ReadFaults :
       Finish(queryPort(Start(f), p, m, nb), f, Call("queryPort", p, m, nb, NoPort))
  /\ UNCHANGED <<built, modules, handles>>

CallInWaiting ==
  /\ built
  /\ \E p \in PortArgs, f \in ReadFaults :
       Finish(inWaiting(Start(f), p), f, Call("inWaiting", p, "", NoBytes, NoPort))
  /\ UNCHANGED <<built, modules, handles>>

CallFlush ==
  /\ built
  /\ \E p \in PortArgs \cup {NoPort} :
       Finish(flush(Start(NoFault), p), NoFault, Call("flush", p, "", NoBytes, NoPort))
  /\ UNCHANGED <<built, modules, handles>>

CallScanPorts ==
  /\ built
  /\ \E f \in ReadFaults :
       Finish(scanPorts(Start(f)), f, Call("scanPorts", NoPort, "", NoBytes, NoPort))
  /\ UNCHANGED <<built, modules, handles>>

CallClose ==
  /\ built
  /\ Finish(close(Start(NoFault)), NoFault, Call("close", NoPort, "", NoBytes, NoPort))
  /\ UNCHANGED <<built, modules, handles>>

\* SIM_Module(api, port)
Bind ==
  /\ built
  /\ Cardinality(handles) < MaxHandles
  /\ \E p \in PortArgs, f \in ReadFaults :
       /\ Finish(module_init(Start(f), p), f, Call("bind", p, "*IDN?", NoBytes, p))
       /\ handles' = IF exc' = "none" THEN handles \cup {[port |-> p, id |-> ret'.s]}
                                      ELSE handles
  /\ UNCHANGED <<built, modules>>

ModuleWrite ==
  /\ \E h \in handles, m \in Msgs :
       Finish(module_write(Start(NoFault), h.port, m), NoFault,
              Call("write", h.port, m, NoBytes, h.port))
  /\ UNCHANGED <<built, modules, handles>>

ModuleRead ==
  /\ \E h \in handles, nb \in NbytesArgs, f \in ReadFaults :
       Finish(module_read(Start(f), h.port, nb), f, Call("read", h.port, "", nb, h.port))
  /\ UNCHANGED <<built, modules, handles>>

ModuleQuery ==
  /\ \E h \in handles, m \in Msgs, nb \in NbytesArgs, f \in ReadFaults :
       Finish(module_query(Start(f), h.port, m, nb), f, Call("query", h.port, m, nb, h.port))
  /\ UNCHANGED <<built, modules, handles>>

ModuleGetID ==
  /\ \E h \in handles :
       Finish(getID(Start(NoFault), h), NoFault,
              Call("getID", h.port, "", NoBytes, h.port))
  /\ UNCHANGED <<built, modules, handles>>

\* SIM922_api.getExcitation() on a handle
ModuleGetExcitation ==
  /\ \E h \in handles, f \in ReadFaults :
       Finish(getExcitation(Start(f), h.port), f,
              Call("getExcitation", h.port, "EXON? 0", NoBytes, h.port))
  /\ UNCHANGED <<built, modules, handles>>

\* SIM922_api.setExcitation(channel, state) on a handle
ModuleSetExcitation ==
  /\ \E h \in handles, n \in ChannelArgs, state \in BOOLEAN :
       Finish(setExcitation(Start(NoFault), h.port, n, state), NoFault,
              Call("setExcitation", h.port, ExonMsg(n, state), NoBytes, h.port))
  /\ UNCHANGED <<built, modules, handles>>

\* SIM970_api.funMesg() on a handle
ModuleFunMesg ==
  /\ \E h \in handles :
       Finish(funMesg(Start(NoFault), h.port), NoFault,
              Call("funMesg", h.port, "", NoBytes, h.port))
  /\ UNCHANGED <<built, modules, handles>>

\* the call has returned to its caller, who is free to make the next one
Returned ==
  /\ op.name # ""
  /\ op' = NoCall
  /\ trace' = <<>>
  /\ ret' = RetNone
  /\ exc' = "none"
  /\ flushed' = IF op.name = "flush" /\ exc = "none"
                  THEN [port |-> op.port, held |-> op.held] ELSE NotFlushed
  /\ UNCHANGED <<built, instrument, session, id, modules, buf, outq, handles, closed>>
  /\ UNCHANGED guiVars

Next ==
  \/ Returned
  \/ Construct
  \/ CallWrite
  \/ CallRead
  \/ CallQuery
  \/ CallWritePort
  \/ CallReadPort
  \/ CallQueryPort
  \/ CallInWaiting
  \/ CallFlush
  \/ CallScanPorts
  \/ CallClose
  \/ Bind
  \/ ModuleWrite
  \/ ModuleRead
  \/ ModuleQuery
  \/ ModuleGetID
  \/ ModuleGetExcitation
  \/ ModuleSetExcitation
  \/ ModuleFunMesg

vars == <<apiVars, guiVars>>

Spec == Init /\ [][Next]_vars


(***************************************************************************)
(* SIM900.py: the window.  A handler runs without interruption: a short    *)
(* one in one step, the connect handler in one step for each call it makes *)
(* on the link, the acquire handler from one window.process_events() to    *)
(* the next.  running holds the handlers that have not returned; events    *)
(* are dispatched when it is empty or its innermost handler is inside      *)
(* process_events(), and their handlers run before that handler goes on.   *)
(* An exception ends the handler that raised it and nothing else.          *)
(***************************************************************************)
MaxLoops == 2      \* acquisition loops nested in one another
MaxBacklog == 82   \* bytes a port input buffer may hold while the window runs

PORT_922 == 1
PORT_970 == 7
NBYTES_922 == 56
NBYTES_970 == 45
LOOP_DELAY == 1
SETTLE_TURNS == 3
NCHANNELS == 4

ToggleChannels == {1}
\* the transport faults of the window's link: the first read of a call times out
OpenFaults == {NoFault, [k |-> "timeout", a |-> 1]}

Unsigned(s) ==
  Then(s, LAMBDA v :
    IF v # <<>> /\ v[1] \in {"+", "-"} THEN Tail(v) ELSE v)

\* the digits and points of a decimal number: digits, at most one point
IsDecimal(s) ==
  Then(s, LAMBDA v :
    /\ \E i \in 1..Len(v) : IsDigit(v[i])
    /\ \A i \in 1..Len(v) : IsDigit(v[i]) \/ v[i] = "."
    /\ Cardinality({i \in 1..Len(v) : v[i] = "."}) <= 1)

\* float(s) succeeds
FloatParses(s) == IsDecimal(Unsigned(Strip(s)))

\* [float(i) for i in <the reply>.split(',')]
floats(w) ==
  Then(w, LAMBDA v :
    IF ~Ok(v) THEN v
    ELSE IF \A i \in 1..Len(Fields(v.ret.s)) : FloatParses(Fields(v.ret.s)[i]) THEN v
    ELSE Raise(v, "ValueError"))

\* the use of the handle h: the attribute may be missing, and the link of a
\* handle bound before the last disconnect is closed
via(w, h) ==
  Then(w, LAMBDA v :
    IF ~Ok(v) THEN v
    ELSE IF h = Absent THEN Raise(v, "AttributeError")
    ELSE IF ~h.live THEN Raise(v, "InvalidSession")
    ELSE v)

\* the state a step of a handler starts in
GuiStart(f) == Start(f)

\* for n in range(4): self.settings[...] = int(ex[n])
shown(w) ==
  Then(w, LAMBDA v :
    IF ~Ok(v) THEN v
    ELSE IF Len(v.ret.l) < NCHANNELS THEN Raise(v, "IndexError")
    ELSE v)

\* _button_connect_clicked, the button checked: the new link
connect(w, opened) ==
  Then(w, LAMBDA v :
    init(IF api # "None" THEN close(v) ELSE v, opened))

\* a variant of the disconnect that drops the link without closing it
disconnect_noClose(w) == w

\* _button_connect_clicked, the button unchecked
disconnect(w) ==
  Then(w, LAMBDA v :
    IF v.inst # "None" THEN close(v) ELSE v)

\* sim922_refresh: the excitation of channel n and of the channels after it
RECURSIVE refreshFrom(_, _, _, _)
refreshFrom(w, h, n, ticked) ==
  Then(w, LAMBDA v :
    IF ~Ok(v) \/ n > NCHANNELS THEN v
    ELSE refreshFrom(setExcitation(via(v, h), h.port, n, n \in ticked), h, n + 1, ticked))

\* the two writes of an iteration and the first sleep of its settle loop
ask(w) ==
  sleep(module_write(via(module_write(via(w, SIM922), SIM922.port, "VOLT? 0"), SIM970),
                     SIM970.port, "VOLT? 0"),
        LOOP_DELAY)

\* the port a command is part of the exchange of, if any
Own(ev) == IF ev.p \in Ports THEN {ev.p} ELSE {}

\* the ports in flight after the event ev
After(aw, t, i) ==
  Then(aw, LAMBDA v :
    IF t[i].e = "write" /\ t[i].c = "SNDT" THEN v \cup Own(t[i])
    ELSE IF t[i].e = "write" /\ t[i].c = "FLSH" THEN {}
    ELSE IF t[i].e = "write" /\ t[i].c = "FLSI"
      THEN (IF t[i].p = NoPort THEN {} ELSE v \ Own(t[i]))
    ELSE IF t[i].e = "read" /\ i > 2 /\ t[i - 2].c = "RAWN?" THEN v \ Own(t[i - 2])
    ELSE v)

\* the ports in flight after the events i.. of the trace t
RECURSIVE AfterEvents(_, _, _)
AfterEvents(aw, t, i) ==
  Then(aw, LAMBDA v :
    IF i > Len(t) THEN v ELSE AfterEvents(After(v, t, i), t, i + 1))

\* the command ev goes out while the exchange of another port is in flight,
\* or sends a message to a port whose own exchange is
Intrudes(aw, ev) ==
  Then(aw, LAMBDA v :
    /\ ev.e = "write"
    /\ \/ v \ Own(ev) # {}
       \/ ev.c = "SNDT" /\ v # {})

RECURSIVE Overlaps(_, _, _)
Overlaps(aw, t, i) ==
  Then(aw, LAMBDA v :
    IF i > Len(t) THEN FALSE
    ELSE Intrudes(v, t[i]) \/ Overlaps(After(v, t, i), t, i + 1))

\* a step of the window has run the calls that took it to w, and left
\* self.api as a
RanTo(w, name, a) ==
  \E v \in {w} :
    /\ \A q \in Ports : Len(v.buf[q]) <= MaxBacklog
    /\ instrument' = v.inst
    /\ session' = v.session
    /\ id' = v.id
    /\ buf' = v.buf
    /\ outq' = v.outq
    /\ trace' = v.trace
    /\ ret' = v.ret
    /\ exc' = v.exc
    /\ op' = [NoCall EXCEPT !.name = name, !.sync = (outq = <<>>), !.sent = v.sent]
    /\ flushed' = NotFlushed
    /\ closed' = (v.inst = "resource" /\ ~v.session)
    /\ api' = a
    /\ built' = (a # "None")
    /\ inFlight' = AfterEvents(inFlight, v.trace, 1)
    /\ overlap' = Overlaps(inFlight, v.trace, 1)
    /\ UNCHANGED <<modules, handles>>

Ran(w, name) == RanTo(w, name, api)

Top == running[Len(running)]
At(pc) == running # <<>> /\ Top.pc = pc

\* the points of the acquire handler inside window.process_events()
DispatchPoints == {"settle", "got922", "got970"}

\* the event loop takes the next event
Dispatching ==
  /\ window = "open"
  /\ IF running = <<>> THEN TRUE ELSE Top.pc \in DispatchPoints
\* the innermost handler goes on to its next point, or ends
Goes(pc, i) == [running EXCEPT ![Len(running)] = [pc |-> pc, i |-> i]]
Ends == SubSeq(running, 1, Len(running) - 1)

\* _set_acquisition_mode(mode)
ModeButton(mode) == [button_connect EXCEPT !.enabled = ~mode]
ModeSettings(mode) == [settings EXCEPT !.enabled = ~mode]

\* a click that unchecks the acquire button: the handler returns at once
AcquireUnchecked ==
  /\ Dispatching /\ button_acquire.enabled /\ button_acquire.checked
  /\ button_acquire' = [button_acquire EXCEPT !.checked = FALSE]
  /\ Ran(GuiStart(NoFault), "_button_acquire_clicked")
  /\ UNCHANGED <<SIM922, SIM970, button_connect, settings, window, running>>

\* a click that checks it, and a save dialog that gives no path
AcquireCancelled ==
  /\ Dispatching /\ button_acquire.enabled /\ ~button_acquire.checked
  /\ button_acquire' = [button_acquire EXCEPT !.checked = FALSE]
  /\ settings' = IF api = "None" THEN settings ELSE [settings EXCEPT !.enabled = TRUE]
  /\ Ran(GuiStart(NoFault), "_button_acquire_clicked")
  /\ UNCHANGED <<SIM922, SIM970, button_connect, window, running>>

\* a click that checks it, and a path: the handler enters its loop and runs
\* to the first process_events() of the settle loop
AcquireChecked ==
  /\ Dispatching /\ button_acquire.enabled /\ ~button_acquire.checked
  /\ api # "None"
  /\ Len(running) < MaxLoops
  /\ button_acquire' = [button_acquire EXCEPT !.checked = TRUE]
  /\ button_connect' = ModeButton(TRUE)
  /\ settings' = ModeSettings(TRUE)
  /\ Ran(ask(GuiStart(NoFault)), "_button_acquire_clicked")
  /\ running' = IF exc' = "none" THEN Append(running, [pc |-> "settle", i |-> 0])
                                 ELSE running
  /\ UNCHANGED <<SIM922, SIM970, window>>

\* the settle loop: the next sleep and process_events()
LoopSettle ==
  /\ At("settle") /\ Top.i + 1 < SETTLE_TURNS
  /\ Ran(sleep(GuiStart(NoFault), LOOP_DELAY), "settle")
  /\ running' = Goes("settle", Top.i + 1)
  /\ UNCHANGED <<SIM922, SIM970, button_connect, button_acquire, settings, window>>

\* v22 = self.SIM922.read(nbytes=56) ..., and the process_events() after it
LoopRead922 ==
  /\ At("settle") /\ Top.i + 1 = SETTLE_TURNS
  /\ Ran(floats(module_read(via(GuiStart(NoFault), SIM922), SIM922.port, NBYTES_922)),
         "read922")
  /\ running' = IF exc' = "none" THEN Goes("got922", 0) ELSE Ends
  /\ UNCHANGED <<SIM922, SIM970, button_connect, button_acquire, settings, window>>

\* v70 = self.SIM970.read(nbytes=45) ..., and the process_events() after it
\* up to the one after the plot
LoopRead970 ==
  /\ At("got922")
  /\ Ran(floats(module_read(via(GuiStart(NoFault), SIM970), SIM970.port, NBYTES_970)),
         "read970")
  /\ running' = IF exc' = "none" THEN Goes("got970", 0) ELSE Ends
  /\ UNCHANGED <<SIM922, SIM970, button_connect, button_acquire, settings, window>>

\* the button is still checked: the next iteration, up to its first
\* process_events()
LoopAgain ==
  /\ At("got970") /\ button_acquire.checked
  /\ Ran(ask(GuiStart(NoFault)), "ask")
  /\ running' = IF exc' = "none" THEN Goes("settle", 0) ELSE Ends
  /\ UNCHANGED <<SIM922, SIM970, button_connect, button_acquire, settings, window>>

\* the button is unchecked: the loop ends and the handler returns
LoopExit ==
  /\ At("got970") /\ ~button_acquire.checked
  /\ button_connect' = ModeButton(FALSE)
  /\ settings' = ModeSettings(FALSE)
  /\ Ran(GuiStart(NoFault), "_set_acquisition_mode")
  /\ running' = Ends
  /\ UNCHANGED <<SIM922, SIM970, button_acquire, window>>

\* a click that checks the connect button: the handler makes the new link
ConnectChecked ==
  /\ Dispatching /\ button_connect.enabled /\ ~button_connect.checked
  /\ \E opened \in BOOLEAN, f \in OpenFaults :
       RanTo(connect(GuiStart(f), opened), "SIM900_api", "link")
  /\ button_connect' = [button_connect EXCEPT !.checked = TRUE]
  /\ running' = Append(running, [pc |-> "bind922", i |-> 0])
  /\ UNCHANGED <<SIM922, SIM970, button_acquire, settings, window>>

\* self.SIM922 = self.api.SIM922_api(self.api, port = ...)
ConnectBind922 ==
  /\ At("bind922")
  /\ \E f \in OpenFaults : Ran(module_init(GuiStart(f), PORT_922), "SIM922_api")
  /\ SIM922' = IF exc' = "none" THEN [port |-> PORT_922, id |-> ret'.s, live |-> TRUE]
                                ELSE SIM922
  /\ running' = IF exc' = "none" THEN Goes("bind970", 0) ELSE Ends
  /\ UNCHANGED <<SIM970, button_connect, button_acquire, settings, window>>

\* self.SIM970 = self.api.SIM970_api(self.api, port = ...)
ConnectBind970 ==
  /\ At("bind970")
  /\ \E f \in OpenFaults : Ran(module_init(GuiStart(f), PORT_970), "SIM970_api")
  /\ SIM970' = IF exc' = "none" THEN [port |-> PORT_970, id |-> ret'.s, live |-> TRUE]
                                ELSE SIM970
  /\ running' = IF exc' = "none" THEN Goes("getExcitation", 0) ELSE Ends
  /\ UNCHANGED <<SIM922, button_connect, button_acquire, settings, window>>

\* ex = self.SIM922.getExcitation(), the channels shown and the acquire
\* button enabled: the handler returns
ConnectExcitation ==
  /\ At("getExcitation")
  /\ Ran(shown(getExcitation(via(GuiStart(NoFault), SIM922), SIM922.port)), "getExcitation")
  /\ settings' = IF exc' = "none"
                   THEN [settings EXCEPT !.channels = {n \in 1..NCHANNELS : ret'.l[n]}]
                   ELSE settings
  /\ button_acquire' = IF exc' = "none" THEN [button_acquire EXCEPT !.enabled = TRUE]
                                        ELSE button_acquire
  /\ running' = Ends
  /\ UNCHANGED <<SIM922, SIM970, button_connect, window>>

\* the handle after a disconnect: its link is closed
Left(h) == IF h = Absent THEN h ELSE [h EXCEPT !.live = FALSE]

\* a click that unchecks the connect button
ConnectUnchecked ==
  /\ Dispatching /\ button_connect.enabled /\ button_connect.checked
  /\ api # "None"
  /\ RanTo([disconnect(GuiStart(NoFault)) EXCEPT !.inst = "None", !.id = None],
           "_button_connect_clicked", "None")
  /\ SIM922' = Left(SIM922)
  /\ SIM970' = Left(SIM970)
  /\ button_connect' = [button_connect EXCEPT !.checked = FALSE]
  /\ button_acquire' = [button_acquire EXCEPT !.enabled = FALSE]
  /\ UNCHANGED <<settings, window, running>>

\* a SIM922 channel is ticked or unticked: sim922_refresh
ChannelChanged ==
  /\ Dispatching /\ settings.enabled
  /\ \E n \in ToggleChannels :
       /\ settings' = [settings EXCEPT !.channels =
                         IF n \in @ THEN @ \ {n} ELSE @ \cup {n}]
       /\ Ran(refreshFrom(GuiStart(NoFault), SIM922, 1, settings'.channels),
              "sim922_refresh")
  /\ UNCHANGED <<SIM922, SIM970, button_connect, button_acquire, window, running>>

\* a variant of event_close that leaves the acquire button as it is
WindowClosed_keepsChecked ==
  /\ Dispatching
  /\ window' = "closed"
  /\ Ran(GuiStart(NoFault), "event_close")
  /\ UNCHANGED <<SIM922, SIM970, button_connect, button_acquire, settings, running>>

\* the window is closed: event_close
WindowClosed ==
  /\ Dispatching
  /\ window' = "closed"
  /\ button_acquire' = [button_acquire EXCEPT !.checked = FALSE]
  /\ Ran(GuiStart(NoFault), "event_close")
  /\ UNCHANGED <<SIM922, SIM970, button_connect, settings, running>>

NextGUI ==
  \/ ConnectChecked
  \/ ConnectBind922
  \/ ConnectBind970
  \/ ConnectExcitation
  \/ ConnectUnchecked
  \/ AcquireUnchecked
  \/ AcquireCancelled
  \/ AcquireChecked
  \/ LoopSettle
  \/ LoopRead922
  \/ LoopRead970
  \/ LoopAgain
  \/ LoopExit
  \/ ChannelChanged
  \/ WindowClosed

SpecGUI == Init /\ [][NextGUI]_vars

\* a handler that has been entered runs on: its sleeps end, its reads return
\* or time out, and process_events() returns when no event is waiting
HandlerStep ==
  \/ ConnectBind922
  \/ ConnectBind970
  \/ ConnectExcitation
  \/ LoopSettle
  \/ LoopRead922
  \/ LoopRead970
  \/ LoopAgain
  \/ LoopExit

SpecGUILive == SpecGUI /\ WF_vars(HandlerStep)

(***************************************************************************)
(* What the specification says of the link, as properties of Spec.  A      *)
(* property speaks of the state a call has just ended in: op names the     *)
(* call, trace is what it did on the link, ret and exc are how it ended.   *)
(***************************************************************************)
Connected == instrument = "resource" /\ session

\* an event of the trace without the response a read got
Shape(ev) == [ev EXCEPT !.r = <<>>]
Shapes(t) == [i \in 1..Len(t) |-> Shape(t[i])]
IsPrefix(s, t) == Len(s) <= Len(t) /\ \A i \in 1..Len(s) : s[i] = t[i]

\* the commands of the trace
Sent(t) == {i \in 1..Len(t) : t[i].e = "write"}

\* the commands of the trace that name a port
PortCmds(t) == {i \in 1..Len(t) : t[i].e = "write" /\ t[i].p # NoPort}

\* the count a trace asked RAWN? for at its i-th event, 0 if it has no such event
AskedAt(t, i) == IF Len(t) >= i THEN t[i].n ELSE 0

\* flush p; SNDT p; wait; NINP? p; wait; read; RAWN? p,n; wait; read
QueryPortSteps(p, m, n) ==
  <<FLSI(p), SNDT(p, m), Slept(WRITE_DELAY),
    NINP(p), Slept(WRITE_DELAY), ReadEv(<<>>),
    RAWN(p, n), Slept(WRITE_DELAY), ReadEv(<<>>)>>

\* C1: a queryPort(p, message) on a connected link does, in this order and
\* once each, the flush of p, the send to p, a wait, the count query of p, a
\* wait, the read of the count, the data request of p, a wait and the read
\* of the data; a call that raises stops somewhere along this sequence, a
\* call that returns has done all of it; every command that names a port
\* names p
C1_QueryPortOrder ==
  (op.name = "queryPort" /\ Connected) =>
    /\ IsPrefix(Shapes(trace), QueryPortSteps(op.port, op.msg, AskedAt(trace, 7)))
    /\ exc = "none" => Len(trace) = 9
    /\ \A i \in PortCmds(trace) : trace[i].p = op.port

\* a queryPort that returned a module's reply after all nine steps, on a
\* port that held stale bytes when the call began
C1_Witness ==
  /\ op.name = "queryPort" /\ Connected /\ exc = "none"
  /\ op.held > 0
  /\ Len(trace) = 9
  /\ ret.s # <<>>

\* C2: when queryPort(p, message) sends its message the input buffer of p is
\* empty, whatever the calls before it left there; and with the host output
\* queue read up and no transport fault the call returns the stripped reply
\* of the module at p to that message, or the empty string when p has no
\* module, and never bytes of an earlier exchange
C2_NoStaleReply ==
  (op.name = "queryPort" /\ Connected) =>
    /\ op.sent \in {-1, 0}
    /\ (op.port \in Ports /\ op.sync /\ op.fault = "none") =>
         /\ exc = "none"
         /\ op.sent = 0
         /\ ret = RetStr(Strip(IF op.port \in modules THEN Reply(op.port, op.msg)
                                                       ELSE <<>>))

\* a queryPort to a module that answers nothing, on a port whose buffer held
\* an earlier reply: the call returns the empty string
C2_Witness ==
  /\ op.name = "queryPort" /\ Connected /\ exc = "none"
  /\ op.port \in modules /\ op.sync /\ op.fault = "none"
  /\ op.held > 0
  /\ Reply(op.port, op.msg) = <<>>
  /\ ret = RetStr(<<>>)

Simulation == built /\ instrument = "None"

LinkOps ==
  {"write", "read", "query", "writePort", "readPort", "queryPort", "inWaiting",
   "flush", "scanPorts"}

\* C3: in simulation mode every operation of the link returns without
\* raising, reads and queries return the empty string and inWaiting returns 0
C3_SimulationNeutral ==
  (Simulation /\ op.via = NoPort /\ op.name \in LinkOps) =>
    /\ exc = "none"
    /\ op.name \in {"read", "query", "readPort", "queryPort"} => ret = RetStr(<<>>)
    /\ op.name = "inWaiting" => ret = RetInt(0)

\* C4: construction raises nothing; when the open raises, or the FLSH or
\* *IDN? of the probe raises, it leaves a link without instrument whose id is
\* None
C4_ConstructionNeverRaises ==
  op.name = "__init__" =>
    /\ exc = "none"
    /\ built
    /\ (op.msg = "open raises" \/ op.fault \in {"write", "timeout"}) =>
         (instrument = "None" /\ id = None)

\* the open succeeded and a read of the probe timed out: simulation mode
C4_Witness ==
  /\ op.name = "__init__" /\ op.msg = "opened" /\ op.fault = "timeout"
  /\ exc = "none" /\ instrument = "None" /\ id = None

\* C6: inWaiting(p) called right after a flush(p) that returned, for p in
\* 1..8, with the host output queue read up and no transport fault, returns
\* 0 whatever the buffer of p held before the flush
C6_FlushThenCount ==
  (op.name = "inWaiting" /\ op.via = NoPort /\ op.port \in Ports
     /\ flushed.port = op.port /\ op.sync /\ op.fault = "none") =>
    (exc = "none" /\ ret = RetInt(0))

\* the buffer of p held bytes before the flush, and the count is 0
C6_Witness ==
  /\ op.name = "inWaiting" /\ op.port \in Ports
  /\ flushed.port = op.port /\ flushed.held > 0
  /\ exc = "none" /\ ret = RetInt(0)

\* RAWN? p,n; wait; read
ReadPortSteps(p, n) == <<RAWN(p, n), Slept(WRITE_DELAY), ReadEv(<<>>)>>

\* NINP? p; wait; read; RAWN? p,n; wait; read
CountedReadSteps(p, n) ==
  <<NINP(p), Slept(WRITE_DELAY), ReadEv(<<>>)>> \o ReadPortSteps(p, n)

\* the requests of a readPort(p, n): with n given, one RAWN? p,n and no
\* NINP?; with n omitted, one NINP? p and then one RAWN? p for the count the
\* read after the NINP? returned; a call that raises stops along the way
ReadPortRequests ==
  IF op.nb # NoBytes
    THEN /\ IsPrefix(Shapes(trace), ReadPortSteps(op.port, op.nb))
         /\ exc = "none" => Len(trace) = 3
    ELSE /\ IsPrefix(Shapes(trace), CountedReadSteps(op.port, AskedAt(trace, 4)))
         /\ exc = "none" => Len(trace) = 6
         /\ Len(trace) >= 4 => trace[4].n = IntValue(Strip(trace[3].r))

\* what the transport gave the last read of the call
Provided == IF trace # <<>> THEN trace[Len(trace)].r ELSE <<>>

ReadPortCall == op.name = "readPort" /\ Connected

\* C7 as stated: the requests are as above and the value returned is as long
\* as what the transport provided
C7_LengthKept ==
  ReadPortCall =>
    /\ ReadPortRequests
    /\ exc = "none" => Len(ret.s) = Len(Provided)

\* C7 as amended: the requests are as above and the value returned is what
\* the transport provided without its leading and trailing whitespace
C7_RequestsAndStrippedValue ==
  ReadPortCall =>
    /\ ReadPortRequests
    /\ exc = "none" => ret = RetStr(Strip(Provided))

\* a readPort(p, n) that returned a reply shorter than what the transport
\* provided, after a single request for n bytes
C7_Witness ==
  /\ ReadPortCall /\ exc = "none" /\ op.nb > 0
  /\ Len(trace) = 3
  /\ ret.s # <<>>
  /\ Len(ret.s) < Len(Provided)

\* C8: a handle's query(msg, nbytes) with nbytes supplied asks its port for
\* exactly nbytes bytes and issues no count query
C8_NbytesPassedThrough ==
  (op.name = "query" /\ op.via # NoPort /\ op.nb # NoBytes /\ Connected
     /\ exc = "none") =>
    /\ \A i \in 1..Len(trace) : trace[i].c # "NINP?"
    /\ \E i \in 1..Len(trace) : trace[i] = RAWN(op.via, op.nb)

PortOps == {"writePort", "readPort", "queryPort", "inWaiting", "flush", "bind"}

\* C9: a port-addressed operation given a port outside 1..8 raises before
\* it transmits anything, and no command sent names such a port
C9_PortValidated ==
  /\ (op.name \in PortOps /\ op.port \notin Ports \cup {NoPort}) =>
       (exc # "none" /\ Sent(trace) = {})
  /\ \A i \in PortCmds(trace) : trace[i].p \in Ports

\* C10: once close() has been called on a connected link, every later
\* operation of the link and of its handles raises the closed-session error
\* of the transport and transmits nothing
C10_ClosedFailsDistinctly ==
  (closed /\ op.name \notin {"", "close"}) =>
    (exc = "InvalidSession" /\ trace = <<>> /\ ret = RetNone)

\* C11: a bind whose identification query came back empty, or too short to
\* hold the identity fields after the fixed offset, raises; no handle has an
\* empty identity
C11_BindRejectsEmptyIdentity ==
  /\ \A h \in handles : h.id # <<>>
  /\ (op.name = "bind" /\ exc = "none") => ret.s # <<>>

\* the model name in the identification a module at port p sends
ModelName(p) ==
  IF p = 1 THEN <<"S", "I", "M", "9", "2", "2">> ELSE <<"S", "I", "M", "9", "7", "0">>

\* the probes of a scan: the identification command to every port, in order
Probes == [p \in Ports |-> SNDT(p, "*IDN?")]

\* the messages sent to ports in the trace t, in order
Messages(t) == SelectSeq(t, LAMBDA ev : ev.c = "SNDT")

\* C12: scanPorts on a connected link probes the ports in ascending order,
\* each at most once; with every port buffer empty at the start, the host
\* output queue read up and no transport fault it probes all 8 and returns 8
\* entries, the entry of port p being the model name of the module at p, or
\* None when p holds no module
C12_ScanPortsResult ==
  (op.name = "scanPorts" /\ Connected) =>
    /\ IsPrefix(Messages(trace), Probes)
    /\ (op.clean /\ op.sync /\ op.fault = "none") =>
         /\ exc = "none"
         /\ Messages(trace) = Probes
         /\ ret.t = "list"
         /\ Len(ret.l) = LastPort
         /\ \A p \in Ports :
              ret.l[p] = IF p \in modules THEN ModelName(p) ELSE None

\* a scan of a mainframe with modules at ports 1 and 7, from empty buffers
C12_Witness ==
  /\ op.name = "scanPorts" /\ Connected /\ op.clean /\ exc = "none"
  /\ modules = {1, 7}
  /\ ret.l[7] = ModelName(7)
  /\ ret.l[8] = None

\* NINP? p; wait; read
CountSteps(p) == <<NINP(p), Slept(WRITE_DELAY), ReadEv(<<>>)>>

\* the reply the third event of the trace, the read of the count, got
CountReply == trace[3].r

\* C13: inWaiting(p) on a connected link transmits the count query of p and
\* nothing else; it returns the integer the reply holds, which with the host
\* output queue read up and no transport fault is the number of bytes the
\* buffer of p held; when the reply is no integer it raises, and so does a
\* readPort(p) without byte count, which then has transmitted no data request
C13_CountParsedOrRaised ==
  /\ (op.name = "inWaiting" /\ Connected) =>
       /\ IsPrefix(Shapes(trace), CountSteps(op.port))
       /\ exc = "none" =>
            /\ Len(trace) = 3
            /\ IntParses(CountReply)
            /\ ret = RetInt(IntValue(CountReply))
       /\ (Len(trace) = 3 /\ ~IntParses(CountReply)) => exc # "none"
       /\ (op.port \in Ports /\ op.sync /\ op.fault = "none") => ret = RetInt(op.held)
  /\ (op.name = "readPort" /\ op.nb = NoBytes /\ Connected
        /\ Len(trace) >= 3 /\ ~IntParses(CountReply)) =>
       /\ exc # "none"
       /\ Shapes(trace) = CountSteps(op.port)

\* the reply to the count query of a readPort(p) was corrupted: the call
\* raised the parse error after its third event
C13_Witness ==
  /\ op.name = "readPort" /\ op.nb = NoBytes /\ Connected
  /\ op.fault = "garbage"
  /\ exc = "ValueError"
  /\ Len(trace) = 3

ReadingOps == {"read", "query", "readPort", "queryPort", "inWaiting", "scanPorts"}

\* C14: when a transport read of a read, query, readPort, queryPort,
\* inWaiting or scanPorts on a connected link times out, the call raises the
\* timeout, returns no value, and the read that timed out is the last thing
\* it did on the link
C14_TimeoutPropagates ==
  (op.name \in ReadingOps /\ Connected /\ op.expired > 0) =>
    /\ exc = "Timeout"
    /\ ret = RetNone
    /\ op.expired = Len(trace)
    /\ trace[Len(trace)].e = "read"

\* the read of the data of a queryPort timed out, after the count was read
C14_Witness ==
  /\ op.name = "queryPort" /\ Connected
  /\ op.expired = 9
  /\ exc = "Timeout"

\* C15: no call on a constructed link changes the mode its construction
\* chose: self.instrument stays what it was, and in simulation mode no call
\* opens a session
C15_ModeKept ==
  [][built => /\ instrument' = instrument
              /\ instrument = "None" => session' = session]_vars

\* a scan was attempted in simulation mode, and the link is still in it
C15_Witness ==
  /\ Simulation /\ ~session
  /\ op.name = "scanPorts"

\* a bind sends the identification message to its port at most once, and
\* once when it returns, and the handle it makes keeps what the exchange gave
BindAsksOnce ==
  (op.name = "bind" /\ Connected) =>
    /\ IsPrefix(Messages(trace), <<SNDT(op.port, "*IDN?")>>)
    /\ exc = "none" =>
         /\ Messages(trace) = <<SNDT(op.port, "*IDN?")>>
         /\ [port |-> op.port, id |-> ret.s] \in handles

\* getID transmits nothing and returns the identity the handle keeps
GetIDSilent ==
  op.name = "getID" =>
    /\ trace = <<>>
    /\ exc = "none"
    /\ [port |-> op.via, id |-> ret.s] \in handles

\* C16: a handle resolves its identity once, by the one identification
\* query of its bind; getID transmits nothing and returns the identity kept;
\* and no call but a bind adds a handle, changes one or takes one away
C16_IdentityCached ==
  /\ [](BindAsksOnce /\ GetIDSilent)
  /\ [][/\ handles \subseteq handles'
        /\ handles' # handles => op'.name = "bind"]_vars

\* getID on a handle of a link that has been closed since the bind: the
\* identity of the module comes back and nothing is transmitted
C16_Witness ==
  /\ op.name = "getID" /\ closed
  /\ ret.s # <<>>
  /\ trace = <<>>

\* C17: once the window has been closed the acquire button is unchecked;
\* every handler still running then, the acquisition loop among them, comes
\* to its end; and no step after the close sends a message to a module, so no
\* further iteration is started
C17_CloseEndsAcquisition ==
  /\ [](window = "closed" => ~button_acquire.checked)
  /\ (window = "closed") ~> (running = <<>>)
  /\ [][window = "closed" => Messages(trace)' = <<>>]_vars

\* the window was closed while the acquisition loop was inside the
\* process_events() of its settle loop
C17_Witness ==
  /\ window = "closed"
  /\ op.name = "event_close"
  /\ At("settle")

\* what queryPort(p, m) does from the present state under each flush policy
Unconditional(p, m) == queryPortUnder(TRUE, Start(NoFault), p, m)
Conditional(p, m) == queryPortUnder(FALSE, Start(NoFault), p, m)

\* the trace t holds a flush of port p
Flushes(t, p) == \E i \in 1..Len(t) : t[i] = FLSI(p)

\* a call that made the exchange a and one that made the exchange b sent
\* their message to an empty buffer, returned the same value and left the
\* mainframe in the same state
SameOutcome(a, b) ==
  /\ a.exc = "none" /\ b.exc = "none"
  /\ a.sent = 0 /\ b.sent = 0
  /\ a.ret = b.ret
  /\ a.buf = b.buf /\ a.outq = b.outq

\* the conditional policy b flushed p exactly when the count it read, the
\* third event of its trace, was not 0
FlushedIffWaiting(b, p) == Flushes(b.trace, p) <=> IntValue(b.trace[3].r) # 0

PoliciesAgree(p, m) ==
  Then(Unconditional(p, m), LAMBDA a :
    Then(Conditional(p, m), LAMBDA b : SameOutcome(a, b) /\ FlushedIffWaiting(b, p)))

\* the link is connected, between two calls, with the host output queue read up
AtRest == op.name = "" /\ Connected /\ outq = <<>>

\* C18: from every state of a connected link at rest, with no transport
\* fault, queryPort(p, m) under the unconditional policy and under the
\* conditional one sends its message to an empty buffer of p, returns the
\* same value and leaves the same state; the conditional one transmits the
\* flush exactly when the count it read was not 0
C18_PoliciesAgree ==
  AtRest => \A p \in PortArgs \cap Ports, m \in Msgs : PoliciesAgree(p, m)

\* a state at rest in which port 1 holds bytes of an earlier exchange: the
\* conditional policy flushes there, and both return the module's reply
C18_Witness ==
  /\ AtRest
  /\ buf[1] # <<>>
  /\ Flushes(Conditional(1, "VOLT? 0").trace, 1)
  /\ Conditional(1, "VOLT? 0").ret = RetStr(Strip(VoltReply))
  /\ Unconditional(1, "VOLT? 0").ret = RetStr(Strip(VoltReply))

ProbeSteps == <<FLSH, IDN, Slept(WRITE_DELAY), ReadEv(<<>>)>>

\* C20: a construction whose open succeeded transmits FLSH and then *IDN?,
\* stopping along the way only where the transport raises; and a link in
\* simulation mode has no open session, whether the open failed or the probe
\* did
C20_ProbeOrderAndNoLeak ==
  /\ Simulation => ~session
  /\ (op.name = "__init__" /\ op.msg = "opened") =>
       /\ IsPrefix(Shapes(trace), ProbeSteps)
       /\ Connected => Shapes(trace) = ProbeSteps

\* the open succeeded, FLSH went out and the write of *IDN? raised: the
\* link is in simulation mode and the session it opened is closed
C20_Witness ==
  /\ op.name = "__init__" /\ op.msg = "opened" /\ op.fault = "write"
  /\ trace = <<FLSH>>
  /\ Simulation /\ ~session

\* C5: no command goes out on the link while the exchange an earlier
\* command began (its settle delay, its read) has not ended, also when the
\* acquisition loop dispatches events between its writes and its reads
C5_OneCycleInFlight == ~overlap

\* the acquisition loops that have been entered and have not exited: the
\* acquire handler is the only one that stops inside process_events()
Loops == {i \in 1..Len(running) : running[i].pc \in DispatchPoints}

\* C21: at most one acquisition loop is active at any time, whatever the
\* clicks on the acquire button, also an uncheck and a re-check delivered
\* while the running loop dispatches events inside one iteration
C21_OneLoopActive == Cardinality(Loops) <= 1

\* the connect button and the settings can both be used
ModeOff == button_connect.enabled /\ settings.enabled

\* while a loop is active neither the connect button nor the settings can be used
DisabledWhileActive == [](Loops # {} => ~button_connect.enabled /\ ~settings.enabled)

\* when no loop is active both can be used, or will be
EnabledAfterwards == (Loops = {}) ~> ModeOff

\* C22: the connect button and the settings are disabled during the whole
\* time the acquisition loop is active, and however the acquisition ends
\* (button unchecked, window closed, a read or parse failure inside the
\* loop) they are eventually enabled again
C22_ModeFollowsAcquisition == DisabledWhileActive /\ EnabledAfterwards

\* C23: whatever the toggles of the connect button, also after a connect
\* that failed part-way through binding the modules, at most one session
\* opened by the window is open: an open session is that of the link the
\* window holds, a new link is made only when no session is open, and a
\* disconnect leaves no open session, no link and the acquire button disabled
C23_OneLinkOpen ==
  /\ [](session => api = "link")
  /\ [][op'.name = "SIM900_api" => ~session]_vars
  /\ [](op.name = "_button_connect_clicked"
          => ~session /\ api = "None" /\ ~button_acquire.enabled)

\* a new link with an open session was made after a disconnect from a link
\* whose connect had bound the SIM922 and failed before it bound the SIM970
C23_Witness ==
  /\ op.name = "SIM900_api" /\ session /\ api = "link"
  /\ SIM922 # Absent /\ ~SIM922.live
  /\ SIM970 = Absent

=============================================================================
